---- MODULE Spec2Model ----
(***************************************************************************)
(* Model of devtools/mangle_source.py: one invocation of the shebang       *)
(* rewriter as a sequential process, one step per statement that has an    *)
(* observable effect, followed (optionally) by a second invocation on the  *)
(* text the first one wrote to standard output.                            *)
(*                                                                         *)
(* A file is a sequence of tokens: a token is either a piece of text free  *)
(* of line boundaries or one line terminator.  Standard output is the      *)
(* sequence of records print() wrote, each tagged with the source line of  *)
(* the print statement that wrote it.                                      *)
(***************************************************************************)
EXTENDS Integers, Sequences, FiniteSets, TLC

\* ------------------------------------------------------------------ bounds

\* Largest number of lines after the two header lines of a generated file.
MaxBody == 2

\* Largest number of command-line arguments after the program name.
MaxArgs == 2

\* -------------------------------------------------------- program constants

\* errno.ENOENT and errno.EINVAL (Linux values), and the interpreter's exit
\* status for an uncaught exception.
ENOENT == 2
EINVAL == 22
UncaughtStatus == 1

\* The list with a comma between the two literals of its second element.
hack_comma_slip ==
    << "#! /bin/sh",
       "# vim: ts=4 filetype=python expandtab ",
       "shiftwidth=4 softtabstop=4 syntax=python",
       "''''eval version=$( ls /usr/bin/python3.* | \\",
       "    grep '.*[0-9]$' | sort -nr -k2 -t. | head -n1 ) && \\",
       "    version=${version##/usr/bin/python3.} && [ ${version} ] && \\",
       "    [ ${version} -ge 9 ] && exec /usr/bin/python3.${version} " \o "\"$0\" \"$@\" || \\",
       "    exec /usr/bin/env python3 \"$0\" \"$@\"' #'''",
       "# The above hack is to handle distros where /usr/bin/python3",
       "# doesn't point to the latest version of python3 they provide" >>

\* The module-level list `hack` as written in the source: adjacent string
\* literals without a comma between them are one element.
hack_literal ==
    << "#! /bin/sh",
       "# vim: ts=4 filetype=python expandtab " \o "shiftwidth=4 softtabstop=4 syntax=python",
       "''''eval version=$( ls /usr/bin/python3.* | \\",
       "    grep '.*[0-9]$' | sort -nr -k2 -t. | head -n1 ) && \\",
       "    version=${version##/usr/bin/python3.} && [ ${version} ] && \\",
       "    [ ${version} -ge 9 ] && exec /usr/bin/python3.${version} " \o "\"$0\" \"$@\" || \\",
       "    exec /usr/bin/env python3 \"$0\" \"$@\"' #'''",
       "# The above hack is to handle distros where /usr/bin/python3",
       "# doesn't point to the latest version of python3 they provide" >>

\* The tuple with its first two elements exchanged.
valid_shebangs_swapped ==
    << "#!/usr/bin/env python3",
       "#! /usr/bin/env python3",
       "#! /usr/bin/python3",
       "#!/usr/bin/python3" >>

\* The tuple valid_shebangs of main().
valid_shebangs ==
    << "#! /usr/bin/env python3",
       "#!/usr/bin/env python3",
       "#! /usr/bin/python3",
       "#!/usr/bin/python3" >>

munge_marker == "# [:::MUNGE SHEBANG:::]"

NotFoundMsg == "File not found."
UsageMsg == "mangle_source.py takes exactly 1 argument; PATH"
WarnMsg1 == "File does not start with a supported Python 3 shebang line;"
WarnMsg2 == "supported shebangs are:"
WarnMsg3 == "Ignoring."

\* f"  {shebang}"
FormatShebang(shebang) == "  " \o shebang

\* ------------------------------------------------------------ text and I/O

LF == "\n"
CRLF == "\r\n"
CR == "\r"

\* open(..., "r") with newline=None: "\r\n" and "\r" are read as "\n".
UniversalNewline(tok) == IF tok \in {CRLF, CR} THEN LF ELSE tok

\* f.read(): the decoded text with universal-newline translation.
ReadText(raw) == [n \in 1..Len(raw) |-> UniversalNewline(raw[n])]

\* str.splitlines() on a token sequence: a terminator closes the current
\* line (empty or not); text left over at the end is a last line.
RECURSIVE SplitFrom(_, _, _, _)
SplitFrom(text, n, cur, acc) ==
    IF n > Len(text)
    THEN IF cur = "" THEN acc ELSE Append(acc, cur)
    ELSE IF text[n] = LF
         THEN SplitFrom(text, n + 1, "", Append(acc, cur))
         ELSE SplitFrom(text, n + 1, cur \o text[n], acc)

splitlines(text) == SplitFrom(text, 1, "", <<>>)

\* print(s): the text of s followed by one newline.
PrintedTokens(s) == << s, LF >>

RECURSIVE Flatten(_)
Flatten(recs) ==
    IF recs = <<>> THEN <<>>
    ELSE PrintedTokens(Head(recs).text) \o Flatten(Tail(recs))

\* The texts of a sequence of output records.
Texts(recs) == [n \in 1..Len(recs) |-> recs[n].text]

\* ------------------------------------------------------ decisions of main()

\* len(sys.argv) >= 2
ArgcAtLeast(av) == Len(av) >= 2

\* len(sys.argv) == 2
ArgcOk(av) == Len(av) = 2

\* Outcome of open()/read() for each state of the path.
OpenError(st) ==
    CASE st = "ok"      -> "none"
      [] st = "missing" -> "FileNotFoundError"
      [] st = "denied"  -> "PermissionError"
      [] st = "isdir"   -> "IsADirectoryError"
      [] st = "badutf8" -> "UnicodeDecodeError"

\* no except clause
CaughtNothing(err) == FALSE

\* except FileNotFoundError
Caught(err) == err = "FileNotFoundError"

InTuple(x, t) == \E n \in 1..Len(t) : t[n] = x

\* The condition with len(lines) >= 2.
EligibleTwoLines(ls) ==
    /\ Len(ls) >= 2
    /\ InTuple(ls[1], valid_shebangs)
    /\ ls[2] = munge_marker

\* The eligibility condition of the if statement.
Eligible(ls) ==
    /\ Len(ls) > 2
    /\ InTuple(ls[1], valid_shebangs)
    /\ ls[2] = munge_marker

\* lines.pop(0); lines = hack + lines
SpliceOnePop(h, ls) == h \o Tail(ls)

\* lines.pop(0); lines.pop(0); lines = hack + lines
Splice(h, ls) == h \o Tail(Tail(ls))

\* A loop that stops one element early.
LoopHasNextShort(n, ls) == n < Len(ls)

\* The for loop over lines has a next element.
LoopHasNext(n, ls) == n <= Len(ls)

\* ------------------------------------------------------------------- inputs

Range(s) == {s[n] : n \in 1..Len(s)}

HeaderLines ==
    Range(valid_shebangs) \cup
    { "#!/usr/bin/env python3 ", "#!/usr/bin/env Python3",
      munge_marker, "# [:::munge shebang:::]", "x = 1", "" }

BodyLines == { "x = 1", "", "#!/usr/bin/python3" }

SeqUpTo(S, n) == UNION { [1..m -> S] : m \in 0..n }

\* Files of at most two lines over HeaderLines, and files of two header
\* lines followed by one to MaxBody body lines.
InputLines ==
    SeqUpTo(HeaderLines, 2) \cup
    { h \o b : h \in [1..2 -> HeaderLines],
               b \in (SeqUpTo(BodyLines, MaxBody) \ {<<>>}) }

\* How the file terminates its lines, and whether the last line has a
\* terminator.
EndingStyles ==
    { [eol |-> LF, last |-> TRUE],
      [eol |-> CRLF, last |-> TRUE],
      [eol |-> LF, last |-> FALSE] }

RECURSIVE Encode(_, _)
Encode(ls, style) ==
    IF ls = <<>> THEN <<>>
    ELSE IF Len(ls) = 1 /\ ~style.last THEN << Head(ls) >>
    ELSE << Head(ls), style.eol >> \o Encode(Tail(ls), style)

InputFiles == { Encode(ls, style) : ls \in InputLines, style \in EndingStyles }

PathStates == { "ok", "missing", "denied", "isdir", "badutf8" }

ArgVectors == { <<"mangle_source.py">> \o a : a \in SeqUpTo({"PATH"}, MaxArgs) }

\* -------------------------------------------------------------------- state

VARIABLES
    argv,       \* sys.argv
    path,       \* the file system at argv[1]: [st, raw]
    pc,         \* position in the program
    lines,      \* the local `lines`
    hack,       \* the module-level list `hack`
    k,          \* index of the for loop over valid_shebangs
    i,          \* index of the for loop over lines
    stdout,     \* records written to standard output: [text, by]
    stderr,     \* records written to standard error
    status,     \* the process's exit status, -1 while it runs
    ret,        \* main()'s return value, -1 before it returns
    opened,     \* number of open() calls made
    source,     \* Source Lines: the lines as read, <<>> before the read
    branch,     \* "none", "subst" or "pass": the branch of the if taken
    fed,        \* TRUE in an invocation whose input is an earlier output
    first       \* the texts the earlier invocation wrote to standard output

vars == << argv, path, pc, lines, hack, k, i, stdout, stderr, status, ret,
           opened, source, branch, fed, first >>

Init ==
    /\ argv \in ArgVectors
    /\ path \in { [st |-> s, raw |-> <<>>] : s \in PathStates \ {"ok"} }
                \cup { [st |-> "ok", raw |-> f] : f \in InputFiles }
    /\ pc = "start"
    /\ lines = <<>>
    /\ hack = hack_literal
    /\ k = 1
    /\ i = 1
    /\ stdout = <<>>
    /\ stderr = <<>>
    /\ status = -1
    /\ ret = -1
    /\ opened = 0
    /\ source = <<>>
    /\ branch = "none"
    /\ fed = FALSE
    /\ first = <<>>

Emit(text, by) == stdout' = Append(stdout, [text |-> text, by |-> by])

\* ------------------------------------------------------------------ actions

\* lines = []; if len(sys.argv) == 2: ... else: ...
CheckArgs ==
    /\ pc = "start"
    /\ lines' = <<>>
    /\ pc' = IF ArgcOk(argv) THEN "open" ELSE "usage"
    /\ UNCHANGED << argv, path, hack, k, i, stdout, stderr, status, ret,
                    opened, source, branch, fed, first >>

\* print("mangle_source.py takes exactly 1 argument; PATH")
UsagePrint ==
    /\ pc = "usage"
    /\ Emit(UsageMsg, 56)
    /\ pc' = "usage_exit"
    /\ UNCHANGED << argv, path, lines, hack, k, i, stderr, status, ret,
                    opened, source, branch, fed, first >>

\* sys.exit(errno.EINVAL)
UsageExit ==
    /\ pc = "usage_exit"
    /\ status' = EINVAL
    /\ pc' = "exited"
    /\ UNCHANGED << argv, path, lines, hack, k, i, stdout, stderr, ret,
                    opened, source, branch, fed, first >>

\* with open(sys.argv[1], "r", encoding="utf-8") as f:
\*     lines = f.read().splitlines()
OpenRead ==
    /\ pc = "open"
    /\ opened' = opened + 1
    /\ LET err == OpenError(path.st) IN
         IF err = "none"
         THEN /\ lines' = splitlines(ReadText(path.raw))
              /\ source' = splitlines(ReadText(path.raw))
              /\ pc' = "classify"
              /\ UNCHANGED << stderr, status >>
         ELSE IF Caught(err)
         THEN /\ pc' = "notfound"
              /\ UNCHANGED << lines, source, stderr, status >>
         ELSE \* the exception leaves main() and the interpreter reports it
              /\ stderr' = Append(stderr, err)
              /\ status' = UncaughtStatus
              /\ pc' = "exited"
              /\ UNCHANGED << lines, source >>
    /\ UNCHANGED << argv, path, hack, k, i, stdout, ret, branch, fed, first >>

\* print("File not found.")
NotFoundPrint ==
    /\ pc = "notfound"
    /\ Emit(NotFoundMsg, 53)
    /\ pc' = "notfound_exit"
    /\ UNCHANGED << argv, path, lines, hack, k, i, stderr, status, ret,
                    opened, source, branch, fed, first >>

\* sys.exit(errno.ENOENT)
NotFoundExit ==
    /\ pc = "notfound_exit"
    /\ status' = ENOENT
    /\ pc' = "exited"
    /\ UNCHANGED << argv, path, lines, hack, k, i, stdout, stderr, ret,
                    opened, source, branch, fed, first >>

\* if len(lines) > 2 and lines[0] in valid_shebangs and lines[1] == marker:
\*     lines.pop(0); lines.pop(0); lines = hack + lines
Classify ==
    /\ pc = "classify"
    /\ IF Eligible(lines)
       THEN /\ lines' = Splice(hack, lines)
            /\ branch' = "subst"
            /\ pc' = "loop"
       ELSE /\ branch' = "pass"
            /\ pc' = "warn1"
            /\ UNCHANGED lines
    /\ UNCHANGED << argv, path, hack, k, i, stdout, stderr, status, ret,
                    opened, source, fed, first >>

\* print("File does not start with a supported Python 3 shebang line;")
Warn1 ==
    /\ pc = "warn1"
    /\ Emit(WarnMsg1, 72)
    /\ pc' = "warn2"
    /\ UNCHANGED << argv, path, lines, hack, k, i, stderr, status, ret,
                    opened, source, branch, fed, first >>

\* print("supported shebangs are:")
Warn2 ==
    /\ pc = "warn2"
    /\ Emit(WarnMsg2, 73)
    /\ k' = 1
    /\ pc' = "warnloop"
    /\ UNCHANGED << argv, path, lines, hack, i, stderr, status, ret,
                    opened, source, branch, fed, first >>

\* for shebang in valid_shebangs: print(f"  {shebang}")
WarnShebang ==
    /\ pc = "warnloop"
    /\ k <= Len(valid_shebangs)
    /\ Emit(FormatShebang(valid_shebangs[k]), 75)
    /\ k' = k + 1
    /\ pc' = IF k = Len(valid_shebangs) THEN "warn3" ELSE "warnloop"
    /\ UNCHANGED << argv, path, lines, hack, i, stderr, status, ret,
                    opened, source, branch, fed, first >>

\* print("Ignoring.")
Warn3 ==
    /\ pc = "warn3"
    /\ Emit(WarnMsg3, 76)
    /\ pc' = "loop"
    /\ UNCHANGED << argv, path, lines, hack, k, i, stderr, status, ret,
                    opened, source, branch, fed, first >>

\* for line in lines: print(line)
PrintLine ==
    /\ pc = "loop"
    /\ LoopHasNext(i, lines)
    /\ Emit(lines[i], 79)
    /\ i' = i + 1
    /\ UNCHANGED << argv, path, pc, lines, hack, k, stderr, status, ret,
                    opened, source, branch, fed, first >>

\* the loop is exhausted; return 0
Return ==
    /\ pc = "loop"
    /\ ~LoopHasNext(i, lines)
    /\ ret' = 0
    /\ pc' = "returned"
    /\ UNCHANGED << argv, path, lines, hack, k, i, stdout, stderr, status,
                    opened, source, branch, fed, first >>

\* if __name__ == "__main__": main()   -- the value of main() is dropped and
\* the interpreter ends normally.
ModuleEnd ==
    /\ pc = "returned"
    /\ status' = 0
    /\ pc' = "exited"
    /\ UNCHANGED << argv, path, lines, hack, k, i, stdout, stderr, ret,
                    opened, source, branch, fed, first >>

\* The caller saves what a successful invocation wrote to standard output
\* and invokes the program again on that file.
Rerun ==
    /\ pc = "exited"
    /\ status = 0
    /\ ~fed
    /\ fed' = TRUE
    /\ first' = Texts(stdout)
    /\ path' = [st |-> "ok", raw |-> Flatten(stdout)]
    /\ pc' = "start"
    /\ lines' = <<>>
    /\ hack' = hack_literal
    /\ k' = 1
    /\ i' = 1
    /\ stdout' = <<>>
    /\ stderr' = <<>>
    /\ status' = -1
    /\ ret' = -1
    /\ opened' = 0
    /\ source' = <<>>
    /\ branch' = "none"
    /\ UNCHANGED argv

Next ==
    \/ CheckArgs
    \/ UsagePrint
    \/ UsageExit
    \/ OpenRead
    \/ NotFoundPrint
    \/ NotFoundExit
    \/ Classify
    \/ Warn1
    \/ Warn2
    \/ WarnShebang
    \/ Warn3
    \/ PrintLine
    \/ Return
    \/ ModuleEnd
    \/ Rerun

Spec == Init /\ [][Next]_vars

\* One invocation is a sequential program that runs to completion: every
\* step of the program itself is taken once it is enabled.  Whether the
\* caller invokes the program again is left open.
Step ==
    \/ CheckArgs
    \/ UsagePrint
    \/ UsageExit
    \/ OpenRead
    \/ NotFoundPrint
    \/ NotFoundExit
    \/ Classify
    \/ Warn1
    \/ Warn2
    \/ WarnShebang
    \/ Warn3
    \/ PrintLine
    \/ Return
    \/ ModuleEnd

FairSpec == Spec /\ WF_vars(Step)

TypeOK ==
    /\ pc \in { "start", "usage", "usage_exit", "open", "notfound",
                "notfound_exit", "classify", "warn1", "warn2", "warnloop",
                "warn3", "loop", "returned", "exited" }
    /\ status \in { -1, 0, UncaughtStatus, ENOENT, EINVAL }
    /\ branch \in { "none", "subst", "pass" }
    /\ opened \in 0..1
    /\ fed \in BOOLEAN

\* ------------------------------------------------------------------ lemmas

\* Printing lines and reading them back gives the same lines: the input of
\* the second invocation is what the first one wrote.
RoundTrip ==
    (fed /\ branch # "none") => source = first

\* ------------------------------------------------- vocabulary of the claims

Exited == pc = "exited"

\* The file was read without error.
ReadOk == opened = 1 /\ path.st = "ok" /\ pc # "open"

\* Eligibility as the specification words it.
RecognizedShebangs ==
    { "#! /usr/bin/env python3", "#!/usr/bin/env python3",
      "#! /usr/bin/python3", "#!/usr/bin/python3" }

SpecEligible(ls) ==
    /\ Len(ls) >= 3
    /\ ls[1] \in RecognizedShebangs
    /\ ls[2] = "# [:::MUNGE SHEBANG:::]"

\* ls[n:] with Python's 0-based n.
From(ls, n) == SubSeq(ls, n + 1, Len(ls))

ContentTag == 79
WarningTags == { 72, 73, 75, 76 }
FatalTags == { 53, 56 }

IsContent(r) == r.by = ContentTag
IsWarning(r) == r.by \in WarningTags

ContentTexts(recs) == Texts(SelectSeq(recs, IsContent))

\* The complete warning, in order.
FullWarning ==
    << "File does not start with a supported Python 3 shebang line;",
       "supported shebangs are:",
       "  #! /usr/bin/env python3",
       "  #!/usr/bin/env python3",
       "  #! /usr/bin/python3",
       "  #!/usr/bin/python3",
       "Ignoring." >>

\* ------------------------------------------------------------------- claims

\* C1: for every successfully read eligible file, what main() writes to
\* standard output is exactly the Shim Block, contiguous, in order and
\* unchanged, followed by Source Lines[2:] in their original order; and the
\* list `hack` is the same at every point of the run.
C1_ShimThenRest ==
    /\ hack = hack_literal
    /\ (Exited /\ ReadOk /\ SpecEligible(source)) =>
          /\ status = 0
          /\ Texts(stdout) = hack_literal \o From(source, 2)

C1_Witness ==
    /\ Exited /\ ReadOk /\ SpecEligible(source)
    /\ Len(source) >= 4
    /\ source[3] # source[4]
    /\ Len(stdout) = Len(hack_literal) + 2

\* C2 as stated: the Shim Block has 10 lines, Output Lines[10:] equals
\* Source Lines[2:] and the output has len(Source Lines) + 8 lines.
C2_TenLines ==
    (Exited /\ ReadOk /\ SpecEligible(source)) =>
        /\ Len(hack) = 10
        /\ From(Texts(stdout), 10) = From(source, 2)
        /\ Len(stdout) = Len(source) + 8

\* C2 amended: the Shim Block has 9 lines, so for every eligible input
\* Output Lines[9:] equals Source Lines[2:] and the output has
\* len(Source Lines) + 7 lines.
C2_NineLines ==
    /\ Len(hack) = 9
    /\ (Exited /\ ReadOk /\ SpecEligible(source)) =>
          /\ From(Texts(stdout), 9) = From(source, 2)
          /\ Len(stdout) = Len(source) + 7

C2_Witness ==
    /\ Exited /\ ReadOk /\ SpecEligible(source)
    /\ Len(source) = 3
    /\ Len(stdout) = 10

\* C3: substitution happens exactly when the file has at least 3 lines,
\* line 0 is one of the four shebangs and line 1 is the marker; every other
\* successfully read input keeps its lines unchanged and gets the warning.
C3_EligibleIff ==
    /\ (branch = "subst") => SpecEligible(source)
    /\ (branch = "pass") => ~SpecEligible(source) /\ lines = source
    /\ (Exited /\ ReadOk) =>
          /\ branch # "none"
          /\ (~SpecEligible(source)) =>
                /\ branch = "pass"
                /\ ContentTexts(stdout) = source
                /\ Texts(SelectSeq(stdout, IsWarning)) = FullWarning

C3_Witness ==
    /\ Exited /\ ReadOk /\ ~fed
    /\ Len(source) = 2
    /\ source[1] \in RecognizedShebangs
    /\ source[2] = "# [:::MUNGE SHEBANG:::]"
    /\ branch = "pass"
    /\ ContentTexts(stdout) = source

\* C4: for every ineligible input, the sequence written to standard output
\* equals Source Lines exactly, nothing added, removed or altered.
C4_PassThroughStdout ==
    (Exited /\ ReadOk /\ ~SpecEligible(source)) => Texts(stdout) = source

\* C5: when the number of command-line arguments is not exactly one, the
\* process ends with EINVAL, never opens a file, and never reaches the
\* eligibility check or the output loop.
C5_UsageError ==
    (Len(argv) - 1 # 1) =>
        /\ opened = 0
        /\ branch = "none"
        /\ pc \in { "start", "usage", "usage_exit", "exited" }
        /\ \A n \in 1..Len(stdout) : ~IsContent(stdout[n])
        /\ Exited => status = EINVAL

C5_Witness ==
    /\ Exited
    /\ Len(argv) = 3
    /\ path.st = "ok"
    /\ status = EINVAL
    /\ opened = 0

C7_FatalStdoutEmpty ==
    (Len(argv) - 1 # 1 \/ path.st = "missing") => stdout = <<>>

\* C8: every run that read the file successfully ends with exit status 0,
\* after writing every Output Line, on either branch; no failure status is
\* ever set after the read step.
C8_NoFailureAfterRead ==
    ReadOk =>
        /\ status \in { -1, 0 }
        /\ stderr = <<>>
        /\ Exited =>
              /\ status = 0
              /\ ret = 0
              /\ branch \in { "subst", "pass" }
              /\ ContentTexts(stdout) = lines

C8_ExitZero ==
    /\ []C8_NoFailureAfterRead
    /\ ReadOk ~> (Exited /\ status = 0)

C8_Witness ==
    /\ Exited /\ ReadOk /\ ~fed
    /\ branch = "pass"
    /\ Len(lines) = 2 + MaxBody
    /\ status = 0

\* C9: a warning is complete, in its fixed order, before the first source
\* line is written, and all source lines follow it; a fatal message is out
\* before the process halts and no content line accompanies it; an eligible
\* run emits no warning.
C9_MessagesFirst ==
    /\ \A a, b \in 1..Len(stdout) :
          (a < b /\ IsContent(stdout[a])) => IsContent(stdout[b])
    /\ (branch = "pass" /\ \E n \in 1..Len(stdout) : IsContent(stdout[n])) =>
          /\ Len(stdout) > 7
          /\ Texts(SubSeq(stdout, 1, 7)) = FullWarning
          /\ \A n \in 1..7 : IsWarning(stdout[n])
    /\ (branch = "pass" /\ Exited) =>
          /\ Texts(SubSeq(stdout, 1, 7)) = FullWarning
          /\ ContentTexts(stdout) = source
          /\ Len(stdout) = 7 + Len(source)
    /\ (status = EINVAL) =>
          Texts(stdout) = << "mangle_source.py takes exactly 1 argument; PATH" >>
    /\ (status = ENOENT) => Texts(stdout) = << "File not found." >>
    /\ (branch = "subst") => \A n \in 1..Len(stdout) : IsContent(stdout[n])

C9_Witness ==
    /\ Exited /\ ~fed
    /\ branch = "pass"
    /\ Len(source) >= 3
    /\ Len(stdout) = 7 + Len(source)

\* C10: the Output Lines of any run are an ineligible input, and running
\* the rewriter on them yields the same Output Lines again.
C10_SecondRunSame ==
    (fed /\ Exited) =>
        /\ branch = "pass"
        /\ Texts(stdout) = first

====
